---- MODULE Spec2Model ----
(***************************************************************************)
(* geo_analyzer: the brand-visibility pipeline of geo_engine.py            *)
(* (GEOAnalyzer) and the diagnostic run of app.py.                         *)
(*                                                                         *)
(* Two specifications:                                                     *)
(*   SpecUnit  single calls of check_visibility_logic and analyze_task,    *)
(*             inputs and LLM responses drawn from bounded sets;           *)
(*   Spec      the diagnostic run of app.py: generate_scenarios, the       *)
(*             thread-pool batch with its as_completed collector, and      *)
(*             generate_final_report.                                      *)
(*                                                                         *)
(* Text is a sequence of Unicode code points.  A Python value that may be  *)
(* None is a record [none, s].                                             *)
(***************************************************************************)
EXTENDS Integers, Sequences, FiniteSets

VARIABLES
    \* ---- SpecUnit: one call of check_visibility_logic ----
    umode,            \* "detect" | "task" | "run": which scenario this behaviour is
    text,             \* argument text of check_visibility_logic
    brand_name,       \* argument brand_name (check_visibility_logic, analyze_task)
    visible,          \* [called, value]: what check_visibility_logic returned
    \* ---- SpecUnit: one call of analyze_task ----
    model_type,       \* "GPT" | "Gemini"
    q_idx,            \* question index passed in
    model_resp,       \* what the model call did (text or raised)
    score_resp,       \* what the scoring call did (content or raised)
    ret,              \* outcome of the call: returned value or escaped exception
    \* ---- both ----
    gemini_available, \* GEOAnalyzer.gemini_available
    \* ---- Spec: the diagnostic run of app.py ----
    pc,               \* position of the script
    brand_in,         \* sidebar input
    scenario_data,    \* what the scenario LLM call did (decoded content or raised)
    queries,          \* first value returned by generate_scenarios
    futures,          \* the submitted futures: task -> [st, res]
    yielded,          \* futures as_completed has handed to the loop
    all_res,          \* the result collection (a Python list)
    report_input      \* what generate_final_report was called with

vars == <<umode, text, brand_name, visible, model_type, q_idx, model_resp,
          score_resp, ret, gemini_available, pc, brand_in, scenario_data,
          queries, futures, yielded, all_res, report_input>>

unitVars == <<umode, text, brand_name, visible, model_type, q_idx, model_resp,
              score_resp, ret>>
runVars == <<pc, brand_in, scenario_data, queries, futures, yielded, all_res,
             report_input>>

(***************************************************************************)
(* Bounds of the model.                                                    *)
(***************************************************************************)
MaxTextLen == 3
MaxBrandLen == 2
MaxRawLen == 2
MaxQueries == 2

(***************************************************************************)
(* Python values.                                                          *)
(***************************************************************************)
None == [none |-> TRUE, s |-> <<>>]
Str(s) == [none |-> FALSE, s |-> s]
\* Python truthiness of a str-or-None value: None and "" are falsy.
Truthy(x) == ~x.none /\ Len(x.s) > 0

SeqsUpTo(S, n) == UNION {[1..k -> S] : k \in 0..n}

\* 'A', 'a', '1', U+AC00 (a Korean syllable), '-', ' '
Alphabet == {65, 97, 49, 44032, 45, 32}

(***************************************************************************)
(* check_visibility_logic (geo_engine.py 60-67).                           *)
(***************************************************************************)
\* The characters the pattern [^a-zA-Z0-9가-힣] does not match.
InClass(c) ==
    \/ c \in 97..122
    \/ c \in 65..90
    \/ c \in 48..57
    \/ c \in 44032..55203

\* re.sub(pattern, '', s): delete every character the pattern matches.
RECURSIVE re_sub(_)
re_sub(s) ==
    IF s = <<>> THEN <<>>
    ELSE IF InClass(Head(s)) THEN <<Head(s)>> \o re_sub(Tail(s))
         ELSE re_sub(Tail(s))

\* str.lower() on the characters that survive: only A-Z have a lower case.
lower(s) == [i \in 1..Len(s) |-> IF s[i] \in 65..90 THEN s[i] + 32 ELSE s[i]]

NormalizeNoLower(s) == re_sub(s)
normalize(s) == lower(re_sub(s))

\* Python's `b in t` for strings: b is a contiguous substring of t.
str_in(b, t) ==
    \E i \in 0..(Len(t) - Len(b)) : SubSeq(t, i + 1, i + Len(b)) = b

CheckVisibilityRejectsEmptyNorm(t, b) ==
    IF ~Truthy(t) \/ ~Truthy(b) THEN FALSE
    ELSE /\ normalize(b.s) # <<>>
         /\ str_in(normalize(b.s), normalize(t.s))
check_visibility_logic(t, b) ==
    IF ~Truthy(t) \/ ~Truthy(b) THEN FALSE
    ELSE str_in(normalize(b.s), normalize(t.s))

(***************************************************************************)
(* Decoded JSON values and the outcome of a Python expression.             *)
(***************************************************************************)
JBool(b) == [t |-> "bool", b |-> b, n |-> 0, s |-> ""]
JNum(n) == [t |-> "num", b |-> FALSE, n |-> n, s |-> ""]
JStr(s) == [t |-> "str", b |-> FALSE, n |-> 0, s |-> s]

\* A statement either completes with a value or raises an exception.
Ok(v) == [exc |-> FALSE, val |-> v]
Raise(type, msg) == [exc |-> TRUE, type |-> type, msg |-> msg]

\* The classes `except Exception` catches, of those the calls here can raise.
ExceptionClasses == {"APIError", "ValueError", "JSONDecodeError", "TypeError", "KeyError"}

\* json.loads(content): content is the text of the LLM's message, abstracted to
\* the JSON value it spells: "invalid" is no JSON at all, "none" is a message
\* without content (json.loads(None)).
json_loads(content) ==
    CASE content.tag = "invalid" ->
            Raise("JSONDecodeError", "Expecting value: line 1 column 1 (char 0)")
      [] content.tag = "none" ->
            Raise("TypeError", "the JSON object must be str, bytes or bytearray, not NoneType")
      [] OTHER -> Ok(content)

\* d[key] = value on a decoded JSON value: only a dict accepts it.
setitem(d, key, value) ==
    CASE d.tag = "object" ->
            Ok([tag |-> "object",
                obj |-> [k \in DOMAIN d.obj \cup {key} |->
                            IF k = key THEN value ELSE d.obj[k]]])
      [] d.tag = "array" ->
            Raise("TypeError", "list indices must be integers or slices, not str")
      [] d.tag = "string" ->
            Raise("TypeError", "'str' object does not support item assignment")
      [] d.tag = "number" ->
            Raise("TypeError", "'int' object does not support item assignment")
      [] OTHER ->
            Raise("TypeError", "'NoneType' object does not support item assignment")

\* d[key] on a dict.
getitem(d, key) ==
    IF key \in DOMAIN d THEN Ok(d[key]) ELSE Raise("KeyError", key)

(***************************************************************************)
(* analyze_task (geo_engine.py 86-118).  mresp is what the model call did  *)
(* and sresp what the scoring call did: the two network calls of the task. *)
(***************************************************************************)
NoneResult == [none |-> TRUE]

\* geo_engine.py 115: analysis_data["mentioned"] = actual_visibility
OverrideDropped(analysis_data, actual_visibility) ==
    IF analysis_data.tag = "object" THEN Ok(analysis_data)
    ELSE setitem(analysis_data, "mentioned", JBool(actual_visibility))
override_mentioned(analysis_data, actual_visibility) ==
    setitem(analysis_data, "mentioned", JBool(actual_visibility))

\* geo_engine.py 116: the success result
SuccessKeepsError(qi, mt, raw_text, analysis_data) ==
    [q_idx |-> qi, model_type |-> mt, raw |-> raw_text,
     analysis |-> analysis_data.obj, error |-> ""]
success_result(qi, mt, raw_text, analysis_data) ==
    [q_idx |-> qi, model_type |-> mt, raw |-> raw_text,
     analysis |-> analysis_data.obj]

\* geo_engine.py 88-116: the body of the try block
try_body(mt, brand, qi, avail, mresp, sresp) ==
    IF mt # "GPT" /\ ~avail THEN Ok(NoneResult)
    ELSE IF mresp.kind = "raise" THEN Raise(mresp.type, mresp.msg)
    ELSE
      LET raw_text == Str(mresp.s)
          actual_visibility == check_visibility_logic(raw_text, brand)
      IN  IF sresp.kind = "raise" THEN Raise(sresp.type, sresp.msg)
          ELSE
            LET analysis_data == json_loads(sresp.content) IN
            IF analysis_data.exc THEN analysis_data
            ELSE
              LET overridden == override_mentioned(analysis_data.val, actual_visibility) IN
              IF overridden.exc THEN overridden
              ELSE Ok(success_result(qi, mt, raw_text, overridden.val))

\* geo_engine.py 117-118: except Exception as e: return {..., "error": str(e)}
HandlerMissesTypeError(qi, mt, out) ==
    IF out.exc /\ out.type \in ExceptionClasses \ {"TypeError"}
    THEN Ok([q_idx |-> qi, model_type |-> mt, error |-> out.msg])
    ELSE out
except_handler(qi, mt, out) ==
    IF out.exc /\ out.type \in ExceptionClasses
    THEN Ok([q_idx |-> qi, model_type |-> mt, error |-> out.msg])
    ELSE out

analyze_task(mt, brand, qi, avail, mresp, sresp) ==
    except_handler(qi, mt, try_body(mt, brand, qi, avail, mresp, sresp))

\* Whether the call reaches the model call, and then the scoring call.
CallsModel(mt, avail) == mt = "GPT" \/ avail
CallsScoring(mt, avail, mresp) == CallsModel(mt, avail) /\ mresp.kind = "text"

(***************************************************************************)
(* What the two LLM calls of a task can do.                                *)
(***************************************************************************)
NotCalled == [kind |-> "notcalled"]
ModelRaises == [kind |-> "raise", type |-> "APIError", msg |-> "Connection error."]
ModelText(s) == [kind |-> "text", s |-> s]

ScoreRaises == [kind |-> "raise", type |-> "APIError", msg |-> "Request timed out."]
ScoreContent(c) == [kind |-> "content", content |-> c]

\* The JSON objects the scoring call may spell: "mentioned" true, false,
\* non-boolean or absent; "solution_fit" present or absent.
MentionedProposals == {"true", "false", "nonbool", "absent"}
ScoreObject(m, fit) ==
    LET keys == {"fit_reason", "summary"}
                  \cup (IF m = "absent" THEN {} ELSE {"mentioned"})
                  \cup (IF fit THEN {"solution_fit"} ELSE {})
    IN [tag |-> "object",
        obj |-> [k \in keys |->
                   CASE k = "mentioned" ->
                          (CASE m = "true" -> JBool(TRUE)
                             [] m = "false" -> JBool(FALSE)
                             [] OTHER -> JStr("maybe"))
                     [] k = "solution_fit" -> JNum(7)
                     [] OTHER -> JStr(k)]]
ScoreObjects == {ScoreObject(m, fit) : m \in MentionedProposals, fit \in BOOLEAN}
NonObjects == {[tag |-> g] : g \in {"invalid", "none", "array", "string", "number", "null"}}

\* 'A', 'a', '-'
TaskAlphabet == {65, 97, 45}
RawTexts == SeqsUpTo(TaskAlphabet, MaxRawLen)
TaskBrands == {Str(s) : s \in SeqsUpTo(TaskAlphabet, MaxBrandLen)}

ModelResps == {ModelRaises} \cup {ModelText(s) : s \in RawTexts}
ScoreResps == {ScoreRaises} \cup {ScoreContent(c) : c \in NonObjects \cup ScoreObjects}

(***************************************************************************)
(* SpecUnit: one call of check_visibility_logic, or one of analyze_task.   *)
(***************************************************************************)
Unset == [unset |-> TRUE]
NotVisible == [called |-> FALSE, value |-> FALSE]

Texts == {None} \cup {Str(s) : s \in SeqsUpTo(Alphabet, MaxTextLen)}
Brands == {None} \cup {Str(s) : s \in SeqsUpTo(Alphabet, MaxBrandLen)}

RunIdle ==
    /\ pc = "idle"
    /\ brand_in = None
    /\ scenario_data = NotCalled
    /\ queries = Unset
    /\ futures = <<>>
    /\ yielded = {}
    /\ all_res = <<>>
    /\ report_input = Unset

InitDetect ==
    /\ umode = "detect"
    /\ text \in Texts
    /\ brand_name \in Brands
    /\ visible = NotVisible
    /\ model_type = "GPT"
    /\ q_idx = 0
    /\ gemini_available = FALSE
    /\ model_resp = NotCalled
    /\ score_resp = NotCalled
    /\ ret = Unset
    /\ RunIdle

InitTask ==
    /\ umode = "task"
    /\ text = None
    /\ brand_name \in TaskBrands
    /\ visible = NotVisible
    /\ model_type \in {"GPT", "Gemini"}
    /\ q_idx \in 0..MaxQueries
    /\ gemini_available \in BOOLEAN
    /\ model_resp = NotCalled
    /\ score_resp = NotCalled
    /\ ret = Unset
    /\ RunIdle

InitUnit == InitDetect \/ InitTask

\* A call check_visibility_logic(text, brand_name).
CheckVisibility ==
    /\ umode = "detect"
    /\ ~visible.called
    /\ visible' = [called |-> TRUE, value |-> check_visibility_logic(text, brand_name)]
    /\ UNCHANGED <<umode, text, brand_name, model_type, q_idx, model_resp,
                   score_resp, ret, gemini_available>>
    /\ UNCHANGED runVars

\* A call analyze_task(model_type, brand_name, question, q_idx).
AnalyzeTask ==
    /\ umode = "task"
    /\ ret = Unset
    /\ \E mresp \in ModelResps, sresp \in ScoreResps :
         /\ model_resp' = IF CallsModel(model_type, gemini_available)
                          THEN mresp ELSE NotCalled
         /\ score_resp' = IF CallsScoring(model_type, gemini_available, mresp)
                          THEN sresp ELSE NotCalled
         /\ ret' = analyze_task(model_type, brand_name, q_idx, gemini_available,
                                mresp, sresp)
    /\ UNCHANGED <<umode, text, brand_name, visible, model_type, q_idx,
                   gemini_available>>
    /\ UNCHANGED runVars

NextUnit == CheckVisibility \/ AnalyzeTask

SpecUnit == InitUnit /\ [][NextUnit]_vars

(***************************************************************************)
(* Claims about single calls (SpecUnit).                                   *)
(***************************************************************************)
\* Normalization as the specification words it: delete every character that is
\* not an ASCII letter, an ASCII digit or a Korean syllable, lower-case the rest.
IsAsciiUpper(c) == 65 <= c /\ c <= 90
IsAsciiLower(c) == 97 <= c /\ c <= 122
IsAsciiDigit(c) == 48 <= c /\ c <= 57
IsKoreanSyllable(c) == 44032 <= c /\ c <= 55203
SpecKeeps(c) ==
    IsAsciiUpper(c) \/ IsAsciiLower(c) \/ IsAsciiDigit(c) \/ IsKoreanSyllable(c)
SpecNormalize(s) ==
    LET kept == SelectSeq(s, SpecKeeps)
    IN [i \in 1..Len(kept) |-> IF IsAsciiUpper(kept[i]) THEN kept[i] + 32 ELSE kept[i]]
\* b occurs in t as a contiguous substring.
Occurs(b, t) ==
    \E i \in 1..(Len(t) + 1) :
        \A j \in 1..Len(b) : i + j - 1 <= Len(t) /\ t[i + j - 1] = b[j]

Returned == umode = "task" /\ ret # Unset /\ ~ret.exc
HasKey(r, k) == k \in DOMAIN r

\* C1: every result of analyze_task that carries an analysis record has
\* analysis.mentioned equal to check_visibility_logic of that result's raw text
\* and the brand, whatever the scoring call proposed for "mentioned".
C1_MentionOverride ==
    (Returned /\ HasKey(ret.val, "analysis")) =>
        /\ HasKey(ret.val.analysis, "mentioned")
        /\ ret.val.analysis.mentioned =
               JBool(check_visibility_logic(ret.val.raw, brand_name))

\* The scoring call proposed mentioned = false and the result says true.
C1_Witness ==
    /\ Returned
    /\ HasKey(ret.val, "analysis")
    /\ score_resp.kind = "content"
    /\ score_resp.content.tag = "object"
    /\ HasKey(score_resp.content.obj, "mentioned")
    /\ score_resp.content.obj.mentioned = JBool(FALSE)
    /\ ret.val.analysis.mentioned = JBool(TRUE)

\* The failure the task met, if any: the model call raised, the scoring call
\* raised, or the scoring call's content does not decode to a JSON object.
ModelFailed == model_resp.kind = "raise"
ScoringFailed == score_resp.kind = "raise"
DecodeFailed == score_resp.kind = "content" /\ score_resp.content.tag # "object"
TaskFailed == ModelFailed \/ ScoringFailed \/ DecodeFailed
FailureMessage ==
    IF ModelFailed THEN model_resp.msg
    ELSE IF ScoringFailed THEN score_resp.msg
    ELSE LET d == json_loads(score_resp.content)
         IN IF d.exc THEN d.msg ELSE setitem(d.val, "mentioned", JBool(TRUE)).msg

\* C5: analyze_task never lets an exception escape; on any failure of the model
\* call, the scoring call or the decoding of its JSON it returns an error result
\* with the error message and the q_idx and model_type it was called with.
C5_FailureConversion ==
    (umode = "task" /\ ret # Unset) =>
        /\ ~ret.exc
        /\ TaskFailed =>
             /\ DOMAIN ret.val = {"q_idx", "model_type", "error"}
             /\ ret.val.q_idx = q_idx
             /\ ret.val.model_type = model_type
             /\ ret.val.error = FailureMessage

\* The scoring call answered valid JSON that is not an object, and the call
\* returned an error result.
C5_Witness ==
    /\ Returned
    /\ score_resp.kind = "content"
    /\ score_resp.content.tag = "array"
    /\ HasKey(ret.val, "error")

C7_DetectorSoundness ==
    (umode = "detect" /\ visible.called /\ ~text.none /\ ~brand_name.none) =>
        LET nt == SpecNormalize(text.s)
            nb == SpecNormalize(brand_name.s)
        IN  /\ (nb # <<>> /\ Occurs(nb, nt)) => visible.value
            /\ ~Occurs(nb, nt) => ~visible.value

\* "A-1" mentions "a1": a match only after normalization.
C7_Witness ==
    /\ umode = "detect"
    /\ visible.called
    /\ text = Str(<<65, 45, 49>>)
    /\ brand_name = Str(<<97, 49>>)
    /\ visible.value

\* C10: the detector answers false for an empty or absent text or brand; for a
\* non-empty brand that normalizes to the empty string it answers true for every
\* non-empty text, and analyze_task then records mentioned = true.
C10_EmptyNormalizedBrand ==
    /\ (umode = "detect" /\ visible.called) =>
          /\ (~Truthy(text) \/ ~Truthy(brand_name)) => ~visible.value
          /\ (Truthy(text) /\ Truthy(brand_name)
                /\ SpecNormalize(brand_name.s) = <<>>) => visible.value
    /\ (Returned /\ HasKey(ret.val, "analysis") /\ Truthy(ret.val.raw)
          /\ Truthy(brand_name) /\ SpecNormalize(brand_name.s) = <<>>) =>
          ret.val.analysis.mentioned = JBool(TRUE)

\* Brand "-" and raw answer "A": recorded as mentioned.
C10_Witness ==
    /\ Returned
    /\ brand_name = Str(<<45>>)
    /\ HasKey(ret.val, "analysis")
    /\ ret.val.raw = Str(<<65>>)
    /\ ret.val.analysis.mentioned = JBool(TRUE)

(***************************************************************************)
(* generate_scenarios (geo_engine.py 69-84).  sresp is what the LLM call   *)
(* did.  A decoded "queries" value is [t, v]: a list of v questions, a     *)
(* string of v characters, or a number.                                    *)
(***************************************************************************)
MaxQueryStrLen == 1

QList(n) == [t |-> "list", v |-> [i \in 1..n |-> i]]
QString(n) == [t |-> "str", v |-> [i \in 1..n |-> i]]
QNumber == [t |-> "num", v |-> <<>>]
QueryValues ==
    {QList(n) : n \in 0..MaxQueries} \cup {QString(n) : n \in 1..MaxQueryStrLen}
        \cup {QNumber}

ScenarioObject(keys, qv) ==
    [tag |-> "object",
     obj |-> [k \in keys |-> IF k = "queries" THEN qv ELSE QString(1)]]
ScenarioContents ==
    {[tag |-> "invalid"], [tag |-> "array"]}
        \cup {ScenarioObject({"strategy"}, QNumber)}
        \cup {ScenarioObject(ks, qv) :
                 ks \in {{"queries"}, {"strategy", "queries"}}, qv \in QueryValues}
ScenarioResps ==
    {[kind |-> "raise", type |-> "APIError", msg |-> "Connection error."]}
        \cup {ScoreContent(c) : c \in ScenarioContents}

\* data[key] on a decoded JSON value (geo_engine.py 84).
json_getitem(d, key) ==
    CASE d.tag = "object" -> getitem(d.obj, key)
      [] OTHER -> Raise("TypeError", "list indices must be integers or slices, not str")

generate_scenarios(sresp) ==
    IF sresp.kind = "raise" THEN Raise(sresp.type, sresp.msg)
    ELSE
      LET data == json_loads(sresp.content) IN
      IF data.exc THEN data
      ELSE
        LET qs == json_getitem(data.val, "queries")
            strategy == json_getitem(data.val, "strategy")
        IN  IF qs.exc THEN qs
            ELSE IF strategy.exc THEN strategy
            ELSE Ok([queries |-> qs.val, strategy |-> strategy.val])

(***************************************************************************)
(* The diagnostic run of app.py (89-149).                                  *)
(***************************************************************************)
\* app.py 123
max_workers == 6

\* app.py 124-125: one future per i in range(len(queries)) and engine, in this
\* order of submission.
TaskIds(qs) == {<<i, m>> : i \in 0..(Len(qs.v) - 1), m \in {"GPT", "Gemini"}}
SubmitOrder(t) == 2 * t[1] + (IF t[2] = "GPT" THEN 0 ELSE 1)

\* app.py 135-140: the rendering of one result into its slot.
render_slot(res) ==
    LET ana == getitem(res, "analysis") IN
    IF ana.exc THEN ana
    ELSE
      LET mentioned == getitem(ana.val, "mentioned")
          fit == getitem(ana.val, "solution_fit")
      IN  IF mentioned.exc THEN mentioned
          ELSE IF fit.exc THEN fit
          ELSE Ok(TRUE)

\* app.py 127: as_completed(futures) is exhausted once it has yielded every
\* future.
LoopEndsAfterFirst == yielded # {}
AllYielded == \A t \in DOMAIN futures : t \in yielded

AllDone == \A t \in DOMAIN futures : futures[t].st = "done"
Running == {t \in DOMAIN futures : futures[t].st = "running"}
Queued == {t \in DOMAIN futures : futures[t].st = "queued"}

\* What the LLM calls of a task do in a run.
RunBrands == {Str(<<>>), Str(<<97>>)}
RunModelResps == {ModelRaises, ModelText(<<65>>)}
RunScoreResps ==
    {ScoreRaises, ScoreContent(ScoreObject("false", TRUE)),
     ScoreContent(ScoreObject("absent", FALSE))}

UnitIdle ==
    /\ umode = "run"
    /\ text = None
    /\ brand_name = None
    /\ visible = NotVisible
    /\ model_type = "GPT"
    /\ q_idx = 0
    /\ model_resp = NotCalled
    /\ score_resp = NotCalled
    /\ ret = Unset

Init ==
    /\ UnitIdle
    /\ gemini_available = FALSE
    /\ pc = "idle"
    /\ brand_in \in RunBrands
    /\ scenario_data = NotCalled
    /\ queries = Unset
    /\ futures = <<>>
    /\ yielded = {}
    /\ all_res = <<>>
    /\ report_input = Unset

\* app.py 89-90: the button is pressed with a brand and a keyword entered;
\* GEOAnalyzer() finds the Gemini credential or does not (geo_engine.py 21-27).
PressAnalyze ==
    /\ pc = "idle"
    /\ Truthy(brand_in)
    /\ gemini_available' \in BOOLEAN
    /\ pc' = "stage1"
    /\ UNCHANGED <<brand_in, scenario_data, queries, futures, yielded, all_res,
                   report_input>>
    /\ UNCHANGED unitVars

\* app.py 95: queries, strategy = engine.generate_scenarios(brand_in, kw_in)
GenerateScenarios ==
    /\ pc = "stage1"
    /\ \E sresp \in ScenarioResps :
         LET out == generate_scenarios(sresp) IN
         /\ scenario_data' = sresp
         /\ queries' = IF out.exc THEN Unset ELSE out.val.queries
         /\ pc' = IF out.exc THEN "failed_scenarios" ELSE "stage2"
    /\ UNCHANGED <<brand_in, futures, yielded, all_res, report_input,
                   gemini_available>>
    /\ UNCHANGED unitVars

\* app.py 105-119: for i, q in enumerate(queries): a number is not iterable.
BuildSlots ==
    /\ pc = "stage2"
    /\ pc' = IF queries.t = "num" THEN "failed_slots" ELSE "submit"
    /\ UNCHANGED <<brand_in, scenario_data, queries, futures, yielded, all_res,
                   report_input, gemini_available>>
    /\ UNCHANGED unitVars

\* app.py 122-125: all_res = []; every task is submitted, each with q, the
\* last question of the loop above.
SubmitAll ==
    /\ pc = "submit"
    /\ futures' = [t \in TaskIds(queries) |->
                     [st |-> "queued", res |-> Unset,
                      question |-> queries.v[Len(queries.v)]]]
    /\ all_res' = <<>>
    /\ pc' = "batch"
    /\ UNCHANGED <<brand_in, scenario_data, queries, yielded, report_input,
                   gemini_available>>
    /\ UNCHANGED unitVars

\* A worker thread of the pool takes the oldest queued work item.
StartTask(t) ==
    /\ pc \in {"batch", "aborting"}
    /\ t \in Queued
    /\ \A u \in Queued : SubmitOrder(t) <= SubmitOrder(u)
    /\ Cardinality(Running) < max_workers
    /\ futures' = [futures EXCEPT ![t].st = "running"]
    /\ UNCHANGED <<pc, brand_in, scenario_data, queries, yielded, all_res,
                   report_input, gemini_available>>
    /\ UNCHANGED unitVars

\* The worker runs analyze_task(m, brand_in, q, i) to its end.
FinishTask(t) ==
    /\ pc \in {"batch", "aborting"}
    /\ t \in Running
    /\ \E mresp \in RunModelResps, sresp \in RunScoreResps :
         futures' = [futures EXCEPT
                       ![t].st = "done",
                       ![t].res = analyze_task(t[2], brand_in, t[1],
                                               gemini_available, mresp, sresp)]
    /\ UNCHANGED <<pc, brand_in, scenario_data, queries, yielded, all_res,
                   report_input, gemini_available>>
    /\ UNCHANGED unitVars

\* app.py 127-140: one iteration of the as_completed loop.  An exception of
\* future.result() or of the rendering leaves the loop and the with block.
Collect(t) ==
    /\ pc = "batch"
    /\ t \in DOMAIN futures
    /\ futures[t].st = "done"
    /\ t \notin yielded
    /\ yielded' = yielded \cup {t}
    /\ LET out == futures[t].res IN
       IF out.exc
       THEN /\ pc' = "aborting"
            /\ UNCHANGED all_res
       ELSE IF out.val = NoneResult
       THEN UNCHANGED <<pc, all_res>>
       ELSE /\ all_res' = Append(all_res, out.val)
            /\ pc' = IF render_slot(out.val).exc THEN "aborting" ELSE "batch"
    /\ UNCHANGED <<brand_in, scenario_data, queries, futures, report_input,
                   gemini_available>>
    /\ UNCHANGED unitVars

\* app.py 141-142: the loop is over, the with block shuts the pool down and
\* st.session_state.results = all_res.
ExitPool ==
    /\ pc = "batch"
    /\ AllYielded
    /\ AllDone
    /\ pc' = "stage3"
    /\ UNCHANGED <<brand_in, scenario_data, queries, futures, yielded, all_res,
                   report_input, gemini_available>>
    /\ UNCHANGED unitVars

\* ThreadPoolExecutor.__exit__ on an exception: shutdown(wait=True) lets every
\* submitted task run to its end, then the exception ends the script.
ExitPoolOnError ==
    /\ pc = "aborting"
    /\ AllDone
    /\ pc' = "crashed"
    /\ UNCHANGED <<brand_in, scenario_data, queries, futures, yielded, all_res,
                   report_input, gemini_available>>
    /\ UNCHANGED unitVars

\* app.py 148: report = engine.generate_final_report(brand_in, json.dumps(all_res));
\* the LLM call answers or raises (geo_engine.py 126-129).
GenerateFinalReport ==
    /\ pc = "stage3"
    /\ report_input' = [results |-> all_res]
    /\ pc' \in {"done", "failed_report"}
    /\ UNCHANGED <<brand_in, scenario_data, queries, futures, yielded, all_res,
                   gemini_available>>
    /\ UNCHANGED unitVars

Next ==
    \/ PressAnalyze
    \/ GenerateScenarios
    \/ BuildSlots
    \/ SubmitAll
    \/ \E t \in DOMAIN futures : StartTask(t)
    \/ \E t \in DOMAIN futures : FinishTask(t)
    \/ \E t \in DOMAIN futures : Collect(t)
    \/ ExitPool
    \/ ExitPoolOnError
    \/ GenerateFinalReport

Spec == Init /\ [][Next]_vars

(***************************************************************************)
(* Claims about the diagnostic run (Spec).                                 *)
(***************************************************************************)
\* The batch is over: the with block of app.py 123-140 has been left.
BatchEnded == pc \in {"stage3", "done", "failed_report", "crashed"}
Outcome(t) == futures[t].res.val
NumQueries == Len(queries.v)
AvailableEngines == IF gemini_available THEN {"GPT", "Gemini"} ELSE {"GPT"}
EntriesOf(i, m) ==
    {k \in 1..Len(all_res) : all_res[k].q_idx = i /\ all_res[k].model_type = m}
Collected(r) == \E k \in 1..Len(all_res) : all_res[k] = r
FullSuccess(r) == HasKey(r, "analysis") /\ HasKey(r.analysis, "solution_fit")
FailedTasks == {t \in DOMAIN futures : HasKey(Outcome(t), "error")}
\* Every task that did not fail ended in a no-op or in a success whose analysis
\* has every key the scoring prompt asks for.
OthersWellFormed ==
    \A u \in DOMAIN futures \ FailedTasks :
        Outcome(u) = NoneResult \/ FullSuccess(Outcome(u))

\* C2: for N queries and E available engines the batch ends with exactly N x E
\* outcomes in the result collection, successes and errors alike, one per
\* (engine, question index) pair (stated for batches whose successes are
\* well formed).
C2_BatchCompleteness ==
    (BatchEnded /\ queries.t = "list" /\ OthersWellFormed) =>
        /\ Len(all_res) = NumQueries * Cardinality(AvailableEngines)
        /\ \A i \in 0..(NumQueries - 1), m \in AvailableEngines :
               Cardinality(EntriesOf(i, m)) = 1

\* C3: when exactly one task of a batch fails (and every other task ends in a
\* success or a no-op), the batch is not aborted and every sibling's result is
\* collected.
C3_Isolation ==
    (/\ BatchEnded
     /\ queries.t = "list"
     /\ Cardinality(FailedTasks) = 1
     /\ OthersWellFormed)
    => /\ pc # "crashed"
       /\ \A u \in DOMAIN futures \ FailedTasks :
              Outcome(u) # NoneResult => Collected(Outcome(u))

\* C4: without the Gemini credential a batch over N questions ends with N
\* outcomes, all of the GPT engine; every Gemini task is a no-op that adds no
\* entry (stated for batches whose successes are well formed).
C4_OptionalEngineSkip ==
    (BatchEnded /\ ~gemini_available /\ queries.t = "list" /\ OthersWellFormed) =>
        /\ Len(all_res) = NumQueries
        /\ \A k \in 1..Len(all_res) : all_res[k].model_type = "GPT"
        /\ \A i \in 0..(NumQueries - 1) : Outcome(<<i, "Gemini">>) = NoneResult

\* The decoded scenario response is an object that lacks "strategy", lacks
\* "queries", or whose "queries" is not a sequence of questions.
MalformedScenario(c) ==
    /\ c.tag = "object"
    /\ \/ ~HasKey(c.obj, "strategy")
       \/ ~HasKey(c.obj, "queries")
       \/ c.obj.queries.t # "list"

\* C8: on such a response generate_scenarios fails, returns no scenario set,
\* and nothing reaches the batch stage.
C8_ScenarioDecodingFailsLoudly ==
    (scenario_data.kind = "content" /\ MalformedScenario(scenario_data.content)) =>
        /\ pc = "failed_scenarios"
        /\ queries = Unset
        /\ DOMAIN futures = {}

\* C9: the stages run in the order scenarios, batch, report; the report is
\* requested only once every submitted task has ended and been collected, and
\* it receives the complete collection of the batch.
C9_StageOrdering ==
    /\ pc \in {"idle", "stage1", "failed_scenarios"} =>
          (DOMAIN futures = {} /\ report_input = Unset)
    /\ pc \in {"stage2", "failed_slots", "submit", "batch", "aborting", "crashed"} =>
          (queries # Unset /\ report_input = Unset)
    /\ report_input # Unset =>
          /\ pc \in {"done", "failed_report"}
          /\ queries # Unset
          /\ \A t \in DOMAIN futures : futures[t].st = "done" /\ t \in yielded
          /\ report_input.results = all_res
          /\ \A t \in DOMAIN futures :
                Outcome(t) # NoneResult =>
                    /\ Cardinality(EntriesOf(t[1], t[2])) = 1
                    /\ Collected(Outcome(t))
          /\ Len(all_res) =
                Cardinality({t \in DOMAIN futures : Outcome(t) # NoneResult})

\* The report was requested after a batch of two questions on two engines.
C9_Witness ==
    /\ pc = "done"
    /\ gemini_available
    /\ queries = QList(2)
    /\ Len(report_input.results) = 4

====
